---- MODULE Spec2Model ----
(***************************************************************************)
(* Session acquisition, work execution and lock retry of the sqlstore      *)
(* package (session.go): startSessionOrUseExisting, WithDbSession,         *)
(* WithNewDbSession, retryOnLocks, PublishAfterCommit, InsertId.           *)
(*                                                                         *)
(* Each process is one goroutine running one call chain.  A call chain is  *)
(* a stack of frames, one per work execution in progress; the callback of  *)
(* the top frame may register events, call an entry point again (nested)   *)
(* or return.  retryer.Retry and InTransaction are not part of session.go; *)
(* they are modelled from the design document.                             *)
(***************************************************************************)
EXTENDS Integers, Sequences, FiniteSets, TLC

VARIABLES
    QueryRetries,   \* ss.dbCfg.QueryRetries
    active,         \* the goroutines that run in this specification
    sessions,       \* the DBSession objects constructed so far, by identity
    stack,          \* per goroutine: the work executions in progress
    calls,          \* per goroutine: the entry-point calls made so far
    cancelled,      \* per goroutine: whether its root context is cancelled
    last,           \* per goroutine: the work execution that has just returned
    db              \* the rows persisted and the latest call of InsertId

vars == <<QueryRetries, active, sessions, stack, calls, cancelled, last, db>>

(***************************************************************************)
(* Bounds of the model.                                                    *)
(***************************************************************************)
MaxQueryRetries == 3    \* QueryRetries ranges over 0..MaxQueryRetries
MaxCalls == 2           \* entry-point calls one goroutine makes (nested included)
MaxEvents == 2          \* events registered in one run
LongQueryRetries == 9   \* QueryRetries ranges over 1..LongQueryRetries in SpecBackoff
MaxInserts == 2         \* calls of InsertId in one run
MaxPtr == 2             \* levels of pointer around the bean passed to InsertId

(***************************************************************************)
(* Program constants.                                                      *)
(***************************************************************************)
minDelay == 10          \* time.Millisecond*time.Duration(10)
maxDelay == 1000        \* time.Second

Procs == {"g1", "g2"}
Ctxs == {"root", "derived"}     \* derived is a child context of root
SessIds == 1..(MaxCalls * Cardinality(Procs))
NoSess == 0

(***************************************************************************)
(* Errors.  kind tells the Go type, code the sqlite3 error code (of the    *)
(* error itself or of the error it wraps), retry the recorded attempt.     *)
(***************************************************************************)
Err(kind, code, retry) == [kind |-> kind, code |-> code, retry |-> retry]
NoErr == Err("nil", "nil", 0)
ErrLocked == Err("sqlite3.Error", "ErrLocked", 0)
ErrBusy == Err("sqlite3.Error", "ErrBusy", 0)
ErrConstraint == Err("sqlite3.Error", "ErrConstraint", 0)
ErrOther == Err("error", "other", 0)
ErrBegin == Err("error", "begin", 0)
ErrRetryer == Err("retryer", "max retries exceeded", 0)

\* ErrMaximumRetriesReached.Errorf("retry %d: %w", retry, err)
ErrMaximumRetriesReached(retry, err) ==
    Err("ErrMaximumRetriesReached", err.code, retry)

\* what a callback may return
CallbackResults == {NoErr, ErrLocked, ErrBusy, ErrConstraint, ErrOther}

\* variant: every sqlite3 error is taken for lock contention
IsLockError_AnySqlite(err) == err.kind = "sqlite3.Error"

\* errors.As(err, &sqlError) && (Code == ErrLocked || Code == ErrBusy)
IsLockError(err) ==
    /\ err.kind = "sqlite3.Error"
    /\ err.code \in {"ErrLocked", "ErrBusy"}

(***************************************************************************)
(* DBSession.                                                              *)
(***************************************************************************)
NoSession ==
    [alloc |-> FALSE, transactionOpen |-> FALSE, txActive |-> FALSE,
     events |-> <<>>, ctx |-> "none", closeCount |-> 0]

\* variant: the new Session does not record the requested transaction
NewDBSession_NoFlag(beginTran) ==
    [alloc |-> TRUE, transactionOpen |-> FALSE, txActive |-> FALSE,
     events |-> <<>>, ctx |-> "none", closeCount |-> 0]

\* &DBSession{Session: engine.NewSession(), transactionOpen: beginTran}
NewDBSession(beginTran) ==
    [alloc |-> TRUE, transactionOpen |-> beginTran, txActive |-> FALSE,
     events |-> <<>>, ctx |-> "none", closeCount |-> 0]

Allocated(ss) == {s \in SessIds : ss[s].alloc}

\* variant: every call gets the one Session object
NextId_Shared(ss) == 1

\* identity of the next object engine.NewSession() constructs
NextId(ss) == Cardinality(Allocated(ss)) + 1

CanAllocate(ss) == NextId(ss) \in SessIds

\* sess.Close(): releases the handle; an open transaction is rolled back
Close(ss, s) ==
    [ss EXCEPT ![s].closeCount = @ + 1, ![s].txActive = FALSE]

RECURSIVE SumEvents(_, _)
SumEvents(ss, S) ==
    IF S = {} THEN 0
    ELSE LET s == CHOOSE x \in S : TRUE
         IN Len(ss[s].events) + SumEvents(ss, S \ {s})

\* variant: the Session of the context is ignored, a new one is constructed
startSessionOrUseExisting_IgnoreContext(ss, carried, ctx, beginTran, beginOk) ==
    LET id == NextId(ss)
        newSess == NewDBSession(beginTran)
    IN  IF beginTran /\ ~beginOk
        THEN [sess |-> NoSess, isNew |-> FALSE, err |-> ErrBegin,
              sessions |-> [ss EXCEPT ![id] = newSess]]
        ELSE [sess |-> id, isNew |-> TRUE, err |-> NoErr,
              sessions |-> [ss EXCEPT ![id] =
                  [newSess EXCEPT !.txActive = beginTran, !.ctx = ctx]]]

\* variant: a reused Session keeps the context its handle was bound to
startSessionOrUseExisting_NoRebind(ss, carried, ctx, beginTran, beginOk) ==
    IF carried # NoSess
    THEN [sess |-> carried, isNew |-> FALSE, err |-> NoErr, sessions |-> ss]
    ELSE LET id == NextId(ss)
             newSess == NewDBSession(beginTran)
         IN  IF beginTran /\ ~beginOk
             THEN [sess |-> NoSess, isNew |-> FALSE, err |-> ErrBegin,
                   sessions |-> [ss EXCEPT ![id] = newSess]]
             ELSE [sess |-> id, isNew |-> TRUE, err |-> NoErr,
                   sessions |-> [ss EXCEPT ![id] =
                       [newSess EXCEPT !.txActive = beginTran, !.ctx = ctx]]]

\* variant: a reused Session has its flag overwritten with beginTran
startSessionOrUseExisting_ReuseSetsFlag(ss, carried, ctx, beginTran, beginOk) ==
    IF carried # NoSess
    THEN [sess |-> carried, isNew |-> FALSE, err |-> NoErr,
          sessions |-> [ss EXCEPT ![carried].ctx = ctx,
                                  ![carried].transactionOpen = beginTran]]
    ELSE LET id == NextId(ss)
             newSess == NewDBSession(beginTran)
         IN  IF beginTran /\ ~beginOk
             THEN [sess |-> NoSess, isNew |-> FALSE, err |-> ErrBegin,
                   sessions |-> [ss EXCEPT ![id] = newSess]]
             ELSE [sess |-> id, isNew |-> TRUE, err |-> NoErr,
                   sessions |-> [ss EXCEPT ![id] =
                       [newSess EXCEPT !.txActive = beginTran, !.ctx = ctx]]]

(***************************************************************************)
(* startSessionOrUseExisting(ctx, engine, beginTran).  carried is          *)
(* ctx.Value(ContextSessionKey{}) (NoSess when the context has none),      *)
(* beginOk tells whether newSess.Begin() succeeds.  The result holds the   *)
(* three return values and the heap after the call.                        *)
(***************************************************************************)
startSessionOrUseExisting(ss, carried, ctx, beginTran, beginOk) ==
    IF carried # NoSess
    THEN [sess |-> carried, isNew |-> FALSE, err |-> NoErr,
          sessions |-> [ss EXCEPT ![carried].ctx = ctx]]
    ELSE LET id == NextId(ss)
             newSess == NewDBSession(beginTran)
         IN  IF beginTran /\ ~beginOk
             THEN [sess |-> NoSess, isNew |-> FALSE, err |-> ErrBegin,
                   sessions |-> [ss EXCEPT ![id] = newSess]]
             ELSE [sess |-> id, isNew |-> TRUE, err |-> NoErr,
                   sessions |-> [ss EXCEPT ![id] =
                       [newSess EXCEPT !.txActive = beginTran, !.ctx = ctx]]]

\* variant: the last allowed attempt is taken to be QueryRetries + 1
retryOnLocks_OffByOne(retry, err, maxRetries) ==
    IF IsLockError(err)
    THEN IF retry = maxRetries + 1
         THEN [signal |-> "FuncError",
               err |-> ErrMaximumRetriesReached(retry, err)]
         ELSE [signal |-> "FuncFailure", err |-> NoErr]
    ELSE IF err # NoErr
         THEN [signal |-> "FuncError", err |-> err]
         ELSE [signal |-> "FuncComplete", err |-> NoErr]

\* variant: an error that is no lock contention is dropped
retryOnLocks_Swallow(retry, err, maxRetries) ==
    IF IsLockError(err)
    THEN IF retry = maxRetries
         THEN [signal |-> "FuncError",
               err |-> ErrMaximumRetriesReached(retry, err)]
         ELSE [signal |-> "FuncFailure", err |-> NoErr]
    ELSE [signal |-> "FuncComplete", err |-> NoErr]

\* variant: success is signalled with FuncSuccess, not FuncComplete
retryOnLocks_FuncSuccess(retry, err, maxRetries) ==
    IF IsLockError(err)
    THEN IF retry = maxRetries
         THEN [signal |-> "FuncError",
               err |-> ErrMaximumRetriesReached(retry, err)]
         ELSE [signal |-> "FuncFailure", err |-> NoErr]
    ELSE IF err # NoErr
         THEN [signal |-> "FuncError", err |-> err]
         ELSE [signal |-> "FuncSuccess", err |-> NoErr]

\* variant: at the last attempt the contention error is returned as it is
retryOnLocks_Unwrapped(retry, err, maxRetries) ==
    IF IsLockError(err)
    THEN IF retry = maxRetries
         THEN [signal |-> "FuncError", err |-> err]
         ELSE [signal |-> "FuncFailure", err |-> NoErr]
    ELSE IF err # NoErr
         THEN [signal |-> "FuncError", err |-> err]
         ELSE [signal |-> "FuncComplete", err |-> NoErr]

(***************************************************************************)
(* The closure retryOnLocks returns, after retry++ and err := callback():  *)
(* the classification of err.  retry is the counter after the increment.   *)
(***************************************************************************)
retryOnLocks(retry, err, maxRetries) ==
    IF IsLockError(err)
    THEN IF retry = maxRetries
         THEN [signal |-> "FuncError",
               err |-> ErrMaximumRetriesReached(retry, err)]
         ELSE [signal |-> "FuncFailure", err |-> NoErr]
    ELSE IF err # NoErr
         THEN [signal |-> "FuncError", err |-> err]
         ELSE [signal |-> "FuncComplete", err |-> NoErr]

(***************************************************************************)
(* retryer.Retry(body, maxRetries, minDelay, maxDelay): the body runs up   *)
(* to maxRetries times; an error of the body ends the loop at once, as     *)
(* does FuncComplete; after FuncFailure the loop waits currentDelay and    *)
(* doubles it, capped at maxDelay.                                         *)
(***************************************************************************)
Min(a, b) == IF a <= b THEN a ELSE b

\* variant: the loop allows one attempt more
RetryExhausted_OffByOne(retries, maxRetries) == retries > maxRetries

RetryExhausted(retries, maxRetries) == retries >= maxRetries

Retry(response, retries, currentDelay) ==
    IF response.err # NoErr
    THEN [done |-> TRUE, result |-> response.err, retries |-> retries,
          wait |-> 0, currentDelay |-> currentDelay]
    ELSE IF response.signal = "FuncComplete"
    THEN [done |-> TRUE, result |-> NoErr, retries |-> retries,
          wait |-> 0, currentDelay |-> currentDelay]
    ELSE [done |-> FALSE, result |-> NoErr, retries |-> retries + 1,
          wait |-> currentDelay,
          currentDelay |-> Min(currentDelay * 2, maxDelay)]

(***************************************************************************)
(* Frames: one work execution in progress.                                 *)
(*   fn        the entry point                                             *)
(*   ctx       the context passed to it                                    *)
(*   carried   the Session that context carries (NoSess: none)             *)
(*   scope     the Session carried by the contexts its callback holds      *)
(*   sess      the Session handed to the callback; isNew: created here     *)
(*   retry     the counter of retryOnLocks; retries, currentDelay: Retry's *)
(*   pc        "retry": Retry is about to run the body (after waiting)     *)
(*             "callback": the callback is running                         *)
(*   handed    the Session handed to each invocation of the callback       *)
(*   outcomes  what each invocation returned: "nil", "contention" (a       *)
(*             sqlite3 error with code ErrLocked or ErrBusy) or "error"    *)
(*   err       the value the latest invocation returned                    *)
(*   waits     each delay waited between two invocations                   *)
(***************************************************************************)
Outcome(err) ==
    IF err = NoErr THEN "nil"
    ELSE IF err \in {ErrLocked, ErrBusy} THEN "contention"
    ELSE "error"

NewFrame(fn, ctx, carried, scope, sess, isNew) ==
    [fn |-> fn, ctx |-> ctx, carried |-> carried, scope |-> scope,
     sess |-> sess, isNew |-> isNew, retry |-> 0, retries |-> 0,
     currentDelay |-> minDelay, pc |-> "retry",
     handed |-> <<>>, outcomes |-> <<>>, err |-> NoErr, waits |-> <<>>]

NoCall ==
    [fn |-> "none", ctx |-> "none", carried |-> NoSess, sess |-> NoSess,
     isNew |-> FALSE, result |-> NoErr, handed |-> <<>>, outcomes |-> <<>>,
     err |-> NoErr, waits |-> <<>>, depth |-> 0]

Returned(f, result, depth) ==
    [fn |-> f.fn, ctx |-> f.ctx, carried |-> f.carried, sess |-> f.sess,
     isNew |-> f.isNew, result |-> result, handed |-> f.handed,
     outcomes |-> f.outcomes, err |-> f.err, waits |-> f.waits,
     depth |-> depth]

Depth(p) == Len(stack[p])
Top(p) == stack[p][Len(stack[p])]
Pop(s) == SubSeq(s, 1, Len(s) - 1)
SetTop(s, f) == [s EXCEPT ![Len(s)] = f]

\* a goroutine may enter an entry point: at top level once, with the root
\* context, or from the callback of the work execution in progress, with
\* any context of the chain
CanCall(p, c) ==
    /\ p \in active
    /\ calls[p] < MaxCalls
    /\ \/ stack[p] = <<>> /\ calls[p] = 0 /\ c = "root"
       \/ stack[p] # <<>> /\ Top(p).pc = "callback"

\* ctx.Value(ContextSessionKey{}) of the contexts the caller holds
Carried(p) == IF stack[p] = <<>> THEN NoSess ELSE Top(p).scope

(***************************************************************************)
(* What runs when a work execution returns.                                *)
(***************************************************************************)
\* variant: the deferred Close is missing
withDbSessionDefer_NoClose(ss, sess, isNew) == ss

\* variant: the deferred Close runs for a reused Session too
withDbSessionDefer_AlwaysClose(ss, sess, isNew) == Close(ss, sess)

\* withDbSession: if isNew { defer sess.Close() }
withDbSessionDefer(ss, sess, isNew) ==
    IF isNew THEN Close(ss, sess) ELSE ss

\* variant: the deferred Close is missing
WithNewDbSessionDefer_NoClose(ss, sess) == ss

\* WithNewDbSession: defer sess.Close()
WithNewDbSessionDefer(ss, sess) == Close(ss, sess)

\* InTransaction: the owner commits on success, rolls back on failure, and
\* closes the Session
InTransactionFinish(ss, sess, isNew) ==
    IF isNew
    THEN Close([ss EXCEPT ![sess].transactionOpen = FALSE,
                          ![sess].txActive = FALSE], sess)
    ELSE ss

Deferred(ss, f) ==
    CASE f.fn = "WithDbSession" -> withDbSessionDefer(ss, f.sess, f.isNew)
      [] f.fn = "WithNewDbSession" -> WithNewDbSessionDefer(ss, f.sess)
      [] OTHER -> InTransactionFinish(ss, f.sess, f.isNew)

\* the work execution on top of the stack, in state f, returns result to
\* its caller; its deferred calls run
Return(p, f, result) ==
    /\ sessions' = Deferred(sessions, f)
    /\ last' = [last EXCEPT ![p] = Returned(f, result, Depth(p))]
    /\ stack' = [stack EXCEPT ![p] = Pop(@)]

(***************************************************************************)
(* InsertId.  A bean is a value of a named struct type behind ptrs levels  *)
(* of pointer.  The database holds, per table, the number of rows          *)
(* persisted; the generated id of a row is its number in its table.        *)
(*   n       the calls of InsertId made so far                             *)
(*   bean    the bean of the latest call                                   *)
(*   fails   which of the steps of the latest call the dialect and the     *)
(*           engine make fail: <<pre-insert hook, insert, post-insert hook>>*)
(*   trace   the statements the latest call issued on the session          *)
(*   ret     what the latest call returned                                 *)
(***************************************************************************)
TypeNames == {"User", "Org"}
Tables == {"user", "org"}
Beans == [name : TypeNames, ptrs : 0..MaxPtr]
NoBean == [name |-> "none", ptrs |-> 0]

ErrPreInsertId == Err("error", "PreInsertId", 0)
ErrInsertOne == Err("error", "InsertOne", 0)
ErrPostInsertId == Err("error", "PostInsertId", 0)

NoInserts ==
    [rows |-> [t \in Tables |-> 0], n |-> 0, bean |-> NoBean,
     fails |-> <<FALSE, FALSE, FALSE>>, trace |-> <<>>,
     ret |-> [id |-> 0, err |-> NoErr]]

\* for t.Kind() == reflect.Ptr { t = t.Elem() }; return t.Name()
RECURSIVE getTypeName(_)
getTypeName(bean) ==
    IF bean.ptrs > 0
    THEN getTypeName([bean EXCEPT !.ptrs = @ - 1])
    ELSE bean.name

\* sess.DB().Mapper.Obj2Table: the table of a struct type
Obj2Table(name) == IF name = "User" THEN "user" ELSE "org"

\* variant: the error of the pre-insert hook is ignored
InsertId_IgnorePre(d, bean, fails) ==
    LET table == Obj2Table(getTypeName(bean))
        pre == <<[op |-> "PreInsertId", table |-> table]>>
        one == Append(pre, [op |-> "InsertOne", table |-> table])
        post == Append(one, [op |-> "PostInsertId", table |-> table])
        e == [d EXCEPT !.n = @ + 1, !.bean = bean, !.fails = fails]
    IN  IF fails[2]
        THEN [e EXCEPT !.trace = one,
                       !.ret = [id |-> 0, err |-> ErrInsertOne]]
        ELSE IF fails[3]
        THEN [e EXCEPT !.trace = post, !.rows[table] = @ + 1,
                       !.ret = [id |-> 0, err |-> ErrPostInsertId]]
        ELSE [e EXCEPT !.trace = post, !.rows[table] = @ + 1,
                       !.ret = [id |-> d.rows[table] + 1, err |-> NoErr]]

\* sess.InsertId(bean)
InsertId(d, bean, fails) ==
    LET table == Obj2Table(getTypeName(bean))
        pre == <<[op |-> "PreInsertId", table |-> table]>>
        one == Append(pre, [op |-> "InsertOne", table |-> table])
        post == Append(one, [op |-> "PostInsertId", table |-> table])
        e == [d EXCEPT !.n = @ + 1, !.bean = bean, !.fails = fails]
    IN  IF fails[1]
        THEN [e EXCEPT !.trace = pre,
                       !.ret = [id |-> 0, err |-> ErrPreInsertId]]
        ELSE IF fails[2]
        THEN [e EXCEPT !.trace = one,
                       !.ret = [id |-> 0, err |-> ErrInsertOne]]
        ELSE IF fails[3]
        THEN [e EXCEPT !.trace = post, !.rows[table] = @ + 1,
                       !.ret = [id |-> 0, err |-> ErrPostInsertId]]
        ELSE [e EXCEPT !.trace = post, !.rows[table] = @ + 1,
                       !.ret = [id |-> d.rows[table] + 1, err |-> NoErr]]

(***************************************************************************)
(* Actions.                                                                *)
(***************************************************************************)
\* ss.WithDbSession(ctx, callback) -> withDbSession(ctx, ss.engine, callback)
WithDbSession(p, c) ==
    /\ CanCall(p, c)
    /\ Carried(p) # NoSess \/ CanAllocate(sessions)
    /\ LET a == startSessionOrUseExisting(sessions, Carried(p), c, FALSE, TRUE)
       IN  /\ sessions' = a.sessions
           /\ stack' = [stack EXCEPT ![p] = Append(@,
                  NewFrame("WithDbSession", c, Carried(p), Carried(p),
                           a.sess, a.isNew))]
    /\ calls' = [calls EXCEPT ![p] = @ + 1]
    /\ last' = [last EXCEPT ![p] = NoCall]
    /\ UNCHANGED <<db, QueryRetries, active, cancelled>>

\* ss.WithNewDbSession(ctx, callback)
WithNewDbSession(p, c) ==
    /\ CanCall(p, c)
    /\ CanAllocate(sessions)
    /\ LET id == NextId(sessions)
       IN  /\ sessions' = [sessions EXCEPT ![id] = NewDBSession(FALSE)]
           /\ stack' = [stack EXCEPT ![p] = Append(@,
                  NewFrame("WithNewDbSession", c, Carried(p), Carried(p),
                           id, TRUE))]
    /\ calls' = [calls EXCEPT ![p] = @ + 1]
    /\ last' = [last EXCEPT ![p] = NoCall]
    /\ UNCHANGED <<db, QueryRetries, active, cancelled>>

\* the transaction-establishing variant: acquisition with beginTran = true;
\* the Session is stored in the context its callback receives
InTransaction(p, c, beginOk) ==
    /\ CanCall(p, c)
    /\ Carried(p) # NoSess \/ CanAllocate(sessions)
    /\ LET a == startSessionOrUseExisting(sessions, Carried(p), c, TRUE, beginOk)
           f == NewFrame("InTransaction", c, Carried(p), a.sess, a.sess, a.isNew)
       IN  /\ sessions' = a.sessions
           /\ IF a.err # NoErr
              THEN /\ last' = [last EXCEPT ![p] =
                                   Returned(f, a.err, Depth(p) + 1)]
                   /\ UNCHANGED stack
              ELSE /\ stack' = [stack EXCEPT ![p] = Append(@, f)]
                   /\ last' = [last EXCEPT ![p] = NoCall]
    /\ calls' = [calls EXCEPT ![p] = @ + 1]
    /\ UNCHANGED <<db, QueryRetries, active, cancelled>>

\* Retry runs the body: retry++ and the callback is invoked with sess
Attempt(p) ==
    /\ p \in active
    /\ stack[p] # <<>>
    /\ Top(p).pc = "retry"
    /\ IF RetryExhausted(Top(p).retries, QueryRetries)
       THEN Return(p, Top(p), ErrRetryer)
       ELSE /\ stack' = [stack EXCEPT ![p] = SetTop(@,
                   [Top(p) EXCEPT !.pc = "callback",
                                  !.retry = @ + 1,
                                  !.handed = Append(@, Top(p).sess)])]
            /\ last' = [last EXCEPT ![p] = NoCall]
            /\ UNCHANGED sessions
    /\ UNCHANGED <<db, QueryRetries, active, calls, cancelled>>

\* variant: the event replaces the queue
publishAfterCommit_Replace(ss, s, msg) ==
    [ss EXCEPT ![s].events = <<msg>>]

\* variant: the event is put in front of the queue
publishAfterCommit_Prepend(ss, s, msg) ==
    [ss EXCEPT ![s].events = <<msg>> \o @]

\* sess.events = append(sess.events, msg)
publishAfterCommit(ss, s, msg) ==
    [ss EXCEPT ![s].events = Append(@, msg)]

\* sess.PublishAfterCommit(msg) / sess.publishAfterCommit(msg) in the
\* callback; msg is a value no event registered before has (the k-th event
\* registered in the run is the value k)
PublishAfterCommit(p) ==
    /\ p \in active
    /\ stack[p] # <<>>
    /\ Top(p).pc = "callback"
    /\ SumEvents(sessions, SessIds) < MaxEvents
    /\ sessions' = publishAfterCommit(sessions, Top(p).sess,
                                      SumEvents(sessions, SessIds) + 1)
    /\ last' = [last EXCEPT ![p] = NoCall]
    /\ UNCHANGED <<db, QueryRetries, active, stack, calls, cancelled>>

\* the callback returns err: retryOnLocks classifies it and Retry either
\* returns (and the deferred Close runs) or waits for the next attempt
CallbackReturn(p, err) ==
    /\ p \in active
    /\ stack[p] # <<>>
    /\ Top(p).pc = "callback"
    /\ LET f == Top(p)
           response == retryOnLocks(f.retry, err, QueryRetries)
           r == Retry(response, f.retries, f.currentDelay)
           g == [f EXCEPT !.outcomes = Append(@, Outcome(err)), !.err = err]
       IN  IF r.done
           THEN Return(p, g, r.result)
           ELSE /\ stack' = [stack EXCEPT ![p] = SetTop(@,
                       [g EXCEPT !.pc = "retry",
                                 !.retries = r.retries,
                                 !.currentDelay = r.currentDelay,
                                 !.waits = Append(@, r.wait)])]
                /\ last' = [last EXCEPT ![p] = NoCall]
                /\ UNCHANGED sessions
    /\ UNCHANGED <<db, QueryRetries, active, calls, cancelled>>

\* the root context of the chain is cancelled, and with it every context
\* derived from it
Cancel(p) ==
    /\ p \in active
    /\ stack[p] # <<>>
    /\ ~cancelled[p]
    /\ cancelled' = [cancelled EXCEPT ![p] = TRUE]
    /\ last' = [last EXCEPT ![p] = NoCall]
    /\ UNCHANGED <<db, QueryRetries, active, sessions, stack, calls>>

Init ==
    /\ QueryRetries \in 0..MaxQueryRetries
    /\ active = {"g1"}
    /\ sessions = [s \in SessIds |-> NoSession]
    /\ stack = [p \in Procs |-> <<>>]
    /\ calls = [p \in Procs |-> 0]
    /\ cancelled = [p \in Procs |-> FALSE]
    /\ last = [p \in Procs |-> NoCall]
    /\ db = NoInserts

Next ==
    \/ \E p \in Procs, c \in Ctxs : WithDbSession(p, c)
    \/ \E p \in Procs, c \in Ctxs : WithNewDbSession(p, c)
    \/ \E p \in Procs, c \in Ctxs, beginOk \in BOOLEAN : InTransaction(p, c, beginOk)
    \/ \E p \in Procs : Attempt(p)
    \/ \E p \in Procs, err \in CallbackResults : CallbackReturn(p, err)

Spec == Init /\ [][Next]_vars

\* transactions whose callbacks register events and call WithDbSession
NextTx ==
    \/ \E p \in Procs, c \in Ctxs : WithDbSession(p, c)
    \/ \E p \in Procs, c \in Ctxs, beginOk \in BOOLEAN : InTransaction(p, c, beginOk)
    \/ \E p \in Procs : Attempt(p)
    \/ \E p \in Procs, err \in CallbackResults : CallbackReturn(p, err)
    \/ \E p \in Procs : PublishAfterCommit(p)

SpecTx == Init /\ [][NextTx]_vars

\* long retry loops: QueryRetries large enough for the delay to reach maxDelay
InitBackoff ==
    /\ QueryRetries \in 1..LongQueryRetries
    /\ active = {"g1"}
    /\ sessions = [s \in SessIds |-> NoSession]
    /\ stack = [p \in Procs |-> <<>>]
    /\ calls = [p \in Procs |-> 0]
    /\ cancelled = [p \in Procs |-> FALSE]
    /\ last = [p \in Procs |-> NoCall]
    /\ db = NoInserts

NextBackoff ==
    \/ \E p \in Procs : WithDbSession(p, "root")
    \/ \E p \in Procs : WithNewDbSession(p, "root")
    \/ \E p \in Procs : Attempt(p)
    \/ \E p \in Procs, err \in CallbackResults : CallbackReturn(p, err)

SpecBackoff == InitBackoff /\ [][NextBackoff]_vars

\* work executions, nested or not, whose callbacks register events as they
\* like
NextQueue ==
    \/ \E p \in Procs : WithDbSession(p, "root")
    \/ \E p \in Procs : WithNewDbSession(p, "root")
    \/ \E p \in Procs : Attempt(p)
    \/ \E p \in Procs, err \in CallbackResults : CallbackReturn(p, err)
    \/ \E p \in Procs : PublishAfterCommit(p)

SpecQueue == Init /\ [][NextQueue]_vars

\* WithNewDbSession under a transaction whose Session has events queued
NextNew ==
    \/ \E p \in Procs, beginOk \in BOOLEAN : InTransaction(p, "root", beginOk)
    \/ \E p \in Procs, c \in Ctxs : WithNewDbSession(p, c)
    \/ \E p \in Procs : Attempt(p)
    \/ \E p \in Procs, err \in CallbackResults : CallbackReturn(p, err)
    \/ \E p \in Procs : PublishAfterCommit(p)

SpecNew == Init /\ [][NextNew]_vars

\* the callback calls sess.InsertId(bean) on the Session it was handed
CallInsertId(p, bean, fails) ==
    /\ p \in active
    /\ stack[p] # <<>>
    /\ Top(p).pc = "callback"
    /\ db.n < MaxInserts
    /\ db' = InsertId(db, bean, fails)
    /\ last' = [last EXCEPT ![p] = NoCall]
    /\ UNCHANGED <<QueryRetries, active, sessions, stack, calls, cancelled>>

\* one WithDbSession whose callback inserts rows
NextInsert ==
    \/ \E p \in Procs : stack[p] = <<>> /\ WithDbSession(p, "root")
    \/ \E p \in Procs : Attempt(p)
    \/ \E p \in Procs, err \in CallbackResults : CallbackReturn(p, err)
    \/ \E p \in Procs, bean \in Beans, fails \in BOOLEAN \X BOOLEAN \X BOOLEAN :
           CallInsertId(p, bean, fails)

SpecInsert == Init /\ [][NextInsert]_vars

\* the callback calls sess.Begin(), promoted from the embedded *xorm.Session
Begin(p) ==
    /\ p \in active
    /\ stack[p] # <<>>
    /\ Top(p).pc = "callback"
    /\ ~sessions[Top(p).sess].txActive
    /\ sessions' = [sessions EXCEPT ![Top(p).sess].txActive = TRUE]
    /\ last' = [last EXCEPT ![p] = NoCall]
    /\ UNCHANGED <<db, QueryRetries, active, stack, calls, cancelled>>

\* the callback calls sess.Commit(), promoted from the embedded *xorm.Session
Commit(p) ==
    /\ p \in active
    /\ stack[p] # <<>>
    /\ Top(p).pc = "callback"
    /\ sessions[Top(p).sess].txActive
    /\ sessions' = [sessions EXCEPT ![Top(p).sess].txActive = FALSE]
    /\ last' = [last EXCEPT ![p] = NoCall]
    /\ UNCHANGED <<db, QueryRetries, active, stack, calls, cancelled>>

\* callbacks that begin and commit transactions on the handle themselves
NextHandle ==
    \/ \E p \in Procs : WithDbSession(p, "root")
    \/ \E p \in Procs, beginOk \in BOOLEAN : InTransaction(p, "root", beginOk)
    \/ \E p \in Procs : Attempt(p)
    \/ \E p \in Procs, err \in CallbackResults : CallbackReturn(p, err)
    \/ \E p \in Procs : Begin(p)
    \/ \E p \in Procs : Commit(p)

SpecHandle == Init /\ [][NextHandle]_vars

\* Retry runs the body with a callback that registers one event in each
\* invocation, as its first statement: retry++, the callback is invoked with
\* sess and calls sess.PublishAfterCommit(msg)
AttemptPublishing(p) ==
    /\ p \in active
    /\ stack[p] # <<>>
    /\ Top(p).pc = "retry"
    /\ IF RetryExhausted(Top(p).retries, QueryRetries)
       THEN Return(p, Top(p), ErrRetryer)
       ELSE /\ stack' = [stack EXCEPT ![p] = SetTop(@,
                   [Top(p) EXCEPT !.pc = "callback",
                                  !.retry = @ + 1,
                                  !.handed = Append(@, Top(p).sess)])]
            /\ sessions' = publishAfterCommit(sessions, Top(p).sess,
                                              SumEvents(sessions, SessIds) + 1)
            /\ last' = [last EXCEPT ![p] = NoCall]
    /\ UNCHANGED <<db, QueryRetries, active, calls, cancelled>>

\* one work execution whose callback registers one event per invocation,
\* with QueryRetries up to LongQueryRetries
NextPublishing ==
    \/ \E p \in Procs : stack[p] = <<>> /\ WithDbSession(p, "root")
    \/ \E p \in Procs : stack[p] = <<>> /\ WithNewDbSession(p, "root")
    \/ \E p \in Procs : AttemptPublishing(p)
    \/ \E p \in Procs, err \in CallbackResults : CallbackReturn(p, err)

SpecPublishing == InitBackoff /\ [][NextPublishing]_vars

\* two goroutines, each running one work execution on a context of its own
\* that carries no Session
InitConcurrent ==
    /\ QueryRetries \in 0..MaxQueryRetries
    /\ active = Procs
    /\ sessions = [s \in SessIds |-> NoSession]
    /\ stack = [p \in Procs |-> <<>>]
    /\ calls = [p \in Procs |-> 0]
    /\ cancelled = [p \in Procs |-> FALSE]
    /\ last = [p \in Procs |-> NoCall]
    /\ db = NoInserts

NextConcurrent ==
    \/ \E p \in Procs : stack[p] = <<>> /\ WithDbSession(p, "root")
    \/ \E p \in Procs : stack[p] = <<>> /\ WithNewDbSession(p, "root")
    \/ \E p \in Procs : Attempt(p)
    \/ \E p \in Procs, err \in CallbackResults : CallbackReturn(p, err)

SpecConcurrent == InitConcurrent /\ [][NextConcurrent]_vars

\* the root context may be cancelled while the chain runs
NextCancel ==
    \/ Next
    \/ \E p \in Procs : Cancel(p)

SpecCancel == Init /\ [][NextCancel]_vars

(***************************************************************************)
(* Vocabulary of the properties.                                           *)
(***************************************************************************)
Executors == {"WithDbSession", "WithNewDbSession"}

\* the work execution of p that has just returned ran the retry executor
Finished(p) == last[p].fn # "none" /\ last[p].result # ErrBegin

Frames(p) == {stack[p][i] : i \in 1..Len(stack[p])}

AllContention(outcomes) ==
    \A k \in 1..Len(outcomes) : outcomes[k] = "contention"

NonDecreasing(s) == \A i \in 1..(Len(s) - 1) : s[i] <= s[i + 1]

TopNext(p) == stack'[p][Len(stack'[p])]

\* this step is p entering WithDbSession or InTransaction, that is, a call
\* of startSessionOrUseExisting
Acquires(p) ==
    /\ calls'[p] # calls[p]
    /\ ~(Len(stack'[p]) > Len(stack[p]) /\ TopNext(p).fn = "WithNewDbSession")

Pushed(p) == Len(stack'[p]) = Len(stack[p]) + 1

\* this step is the work execution on top of p's stack returning
Popped(p) == Len(stack'[p]) = Len(stack[p]) - 1

(***************************************************************************)
(* C1: with QueryRetries = N >= 1 and a callback that reports lock/busy    *)
(* contention on every attempt, WithDbSession and WithNewDbSession invoke  *)
(* the callback exactly N times and return the maximum-retries-reached     *)
(* error wrapping the error of the N-th attempt and recording attempt N.   *)
(***************************************************************************)
C1_MaxRetriesAfterN ==
    \A p \in Procs :
        (/\ Finished(p)
         /\ last[p].fn \in Executors
         /\ QueryRetries >= 1
         /\ last[p].outcomes # <<>>
         /\ AllContention(last[p].outcomes))
        => /\ Len(last[p].outcomes) = QueryRetries
           /\ Len(last[p].handed) = QueryRetries
           /\ last[p].result =
                  Err("ErrMaximumRetriesReached", last[p].err.code, QueryRetries)

C1_Witness ==
    /\ QueryRetries = 3
    /\ last["g1"].fn = "WithNewDbSession"
    /\ last["g1"].outcomes = <<"contention", "contention", "contention">>
    /\ last["g1"].err = ErrBusy
    /\ last["g1"].result = Err("ErrMaximumRetriesReached", "ErrBusy", 3)

(***************************************************************************)
(* C2: the retry executor returns nil only when the last invocation of the *)
(* callback returned nil: a run whose final attempt failed (contention or  *)
(* any other error) never returns nil, for every QueryRetries.             *)
(***************************************************************************)
C2_NilOnlyAfterNil ==
    \A p \in Procs :
        (/\ Finished(p)
         /\ last[p].outcomes # <<>>
         /\ last[p].outcomes[Len(last[p].outcomes)] # "nil")
        => last[p].result # NoErr

C2_Witness ==
    /\ QueryRetries = 1
    /\ Finished("g1")
    /\ last["g1"].outcomes = <<"contention">>
    /\ last["g1"].result # NoErr

(***************************************************************************)
(* C3: when the callback returns an error that is not lock/busy contention *)
(* on attempt k, the executor stops at once: k invocations in total, and   *)
(* that same error is returned, not wrapped.                               *)
(***************************************************************************)
C3_OtherErrorStops ==
    \A p \in Procs :
        /\ \A f \in Frames(p) : AllContention(f.outcomes)
        /\ Finished(p) =>
               \A k \in 1..Len(last[p].outcomes) :
                   last[p].outcomes[k] = "error"
                   => /\ k = Len(last[p].outcomes)
                      /\ Len(last[p].handed) = k
                      /\ last[p].result = last[p].err

C3_Witness ==
    /\ Finished("g1")
    /\ last["g1"].outcomes = <<"contention", "error">>
    /\ last["g1"].err = ErrConstraint
    /\ last["g1"].result = ErrConstraint

(***************************************************************************)
(* C4: contention on attempts 1..k-1 and success on attempt k <=           *)
(* QueryRetries: the executor returns nil after exactly k invocations, and *)
(* the k-1 delays waited between attempts are non-decreasing, each within  *)
(* [minDelay, maxDelay].                                                   *)
(***************************************************************************)
C4_SuccessAfterContention ==
    \A p \in Procs :
        (/\ Finished(p)
         /\ last[p].outcomes # <<>>
         /\ last[p].outcomes[Len(last[p].outcomes)] = "nil")
        => /\ last[p].result = NoErr
           /\ AllContention(SubSeq(last[p].outcomes, 1, Len(last[p].outcomes) - 1))
           /\ Len(last[p].handed) = Len(last[p].outcomes)
           /\ Len(last[p].outcomes) <= QueryRetries
           /\ Len(last[p].waits) = Len(last[p].outcomes) - 1
           /\ NonDecreasing(last[p].waits)
           /\ \A i \in 1..Len(last[p].waits) :
                  minDelay <= last[p].waits[i] /\ last[p].waits[i] <= maxDelay

\* success on attempt 9, after eight waits of which the last is capped
C4_Witness ==
    /\ Finished("g1")
    /\ Len(last["g1"].outcomes) = 9
    /\ last["g1"].outcomes[9] = "nil"
    /\ last["g1"].result = NoErr
    /\ last["g1"].waits = <<10, 20, 40, 80, 160, 320, 640, 1000>>

C6_NoAttemptAfterCancel ==
    [][\A p \in Procs :
          (cancelled[p] /\ stack[p] # <<>>)
          => ~(/\ Len(stack'[p]) = Len(stack[p])
               /\ Len(TopNext(p).handed) > Len(Top(p).handed))]_vars

(***************************************************************************)
(* C7 as stated: in a chain, the second and later calls of an entry point  *)
(* get the Session of the outer work execution, with isNewlyCreated =      *)
(* false (here: WithDbSession called from the callback of WithDbSession).  *)
(***************************************************************************)
C7_NestedAlwaysReuses ==
    \A p \in Procs : \A i \in 2..Len(stack[p]) :
        (stack[p][i].fn = "WithDbSession" /\ stack[p][i - 1].fn = "WithDbSession")
        => /\ stack[p][i].sess = stack[p][i - 1].sess
           /\ ~stack[p][i].isNew

(***************************************************************************)
(* C7 amended: reuse follows the context.  Under a work execution that     *)
(* stored its Session in the context (InTransaction), every nested         *)
(* WithDbSession or InTransaction gets that identical Session with isNew = *)
(* false; a nested WithDbSession whose context carries no Session          *)
(* constructs its own, different from every Session of the chain.          *)
(***************************************************************************)
C7_ReuseFollowsContext ==
    \A p \in Procs : \A j \in 2..Len(stack[p]) :
        /\ \A i \in 1..(j - 1) :
               (stack[p][i].fn = "InTransaction"
                    /\ stack[p][j].fn # "WithNewDbSession")
               => /\ stack[p][j].sess = stack[p][i].sess
                  /\ ~stack[p][j].isNew
        /\ (stack[p][j].fn # "WithNewDbSession" /\ stack[p][j].carried = NoSess)
               => /\ stack[p][j].isNew
                  /\ \A i \in 1..(j - 1) : stack[p][i].sess # stack[p][j].sess

C7_Witness ==
    /\ Len(stack["g1"]) = 2
    /\ stack["g1"][1].fn = "InTransaction"
    /\ stack["g1"][2].fn = "WithDbSession"
    /\ stack["g1"][2].sess = stack["g1"][1].sess
    /\ stack["g1"][2].pc = "callback"

(***************************************************************************)
(* C8: when the context carries a Session, acquisition returns that        *)
(* Session with isNew = false and no error, whatever beginTran; nothing of *)
(* the heap changes but the context the Session's handle is bound to.      *)
(***************************************************************************)
C8_ReuseChangesOnlyBinding ==
    [][\A p \in Procs :
          (Acquires(p) /\ Carried(p) # NoSess)
          => /\ Pushed(p)
             /\ TopNext(p).sess = Carried(p)
             /\ ~TopNext(p).isNew
             /\ sessions' = [sessions EXCEPT ![Carried(p)].ctx = TopNext(p).ctx]]_vars

C8_Witness ==
    /\ Len(stack["g1"]) = 2
    /\ stack["g1"][2].fn = "InTransaction"
    /\ ~stack["g1"][2].isNew
    /\ stack["g1"][2].ctx = "derived"
    /\ sessions[stack["g1"][2].sess].ctx = "derived"
    /\ sessions[stack["g1"][2].sess].transactionOpen
    /\ sessions[stack["g1"][2].sess].events = <<1>>
    /\ stack["g1"][2].handed = <<>>

(***************************************************************************)
(* C9: for a context that carries no Session, acquisition returns a new    *)
(* Session with isNew = true, no pending events and transactionOpen =      *)
(* beginTran; when beginTran is set and Begin fails it returns the error   *)
(* and no Session, with isNew = false.                                     *)
(***************************************************************************)
C9_FreshContextNewSession ==
    [][\A p \in Procs :
          (Acquires(p) /\ Carried(p) = NoSess)
          => \/ /\ Pushed(p)
                /\ TopNext(p).isNew
                /\ TopNext(p).sess \in SessIds \ Allocated(sessions)
                /\ sessions'[TopNext(p).sess].alloc
                /\ sessions'[TopNext(p).sess].events = <<>>
                /\ sessions'[TopNext(p).sess].transactionOpen =
                       (TopNext(p).fn = "InTransaction")
             \/ /\ stack'[p] = stack[p]
                /\ last'[p].fn = "InTransaction"
                /\ last'[p].result = ErrBegin
                /\ last'[p].sess = NoSess
                /\ ~last'[p].isNew]_vars

C9_Witness ==
    /\ Len(stack["g1"]) = 1
    /\ stack["g1"][1].fn = "InTransaction"
    /\ stack["g1"][1].isNew
    /\ stack["g1"][1].handed = <<>>
    /\ sessions[stack["g1"][1].sess].transactionOpen
    /\ sessions[stack["g1"][1].sess].events = <<>>

(***************************************************************************)
(* C10: a Session that WithDbSession created is closed exactly once, on    *)
(* every exit path, and only when the retry loop has finished: while the   *)
(* loop runs it is open, and it is the Session handed to every attempt.    *)
(***************************************************************************)
C10_NewSessionClosedOnceAtEnd ==
    \A p \in Procs :
        /\ \A f \in Frames(p) :
               (f.fn = "WithDbSession" /\ f.isNew)
               => /\ sessions[f.sess].closeCount = 0
                  /\ \A k \in 1..Len(f.handed) : f.handed[k] = f.sess
        /\ (last[p].fn = "WithDbSession" /\ last[p].isNew)
               => /\ sessions[last[p].sess].closeCount = 1
                  /\ \A k \in 1..Len(last[p].handed) :
                         last[p].handed[k] = last[p].sess

C10_Witness ==
    /\ last["g1"].fn = "WithDbSession"
    /\ last["g1"].isNew
    /\ last["g1"].result.kind = "ErrMaximumRetriesReached"
    /\ Len(last["g1"].handed) = 3
    /\ sessions[last["g1"].sess].closeCount = 1

(***************************************************************************)
(* C11: a WithDbSession that reused the Session of its context never       *)
(* closes it, whatever it returns (nil, the callback's error, maximum      *)
(* retries reached): when the nested call has returned the Session has not *)
(* been closed, its transaction is still active and the work execution     *)
(* that created it is still in progress and holds it.                      *)
(***************************************************************************)
C11_ReusedSessionNotClosed ==
    \A p \in Procs :
        /\ \A f \in Frames(p) :
               (f.fn = "WithDbSession" /\ ~f.isNew)
               => sessions[f.sess].closeCount = 0
        /\ (last[p].fn = "WithDbSession" /\ ~last[p].isNew)
               => /\ sessions[last[p].sess].closeCount = 0
                  /\ sessions[last[p].sess].txActive
                  /\ \E i \in 1..Len(stack[p]) :
                         /\ stack[p][i].isNew
                         /\ stack[p][i].sess = last[p].sess
                         /\ stack[p][i].pc = "callback"

C11_Witness ==
    /\ last["g1"].fn = "WithDbSession"
    /\ ~last["g1"].isNew
    /\ last["g1"].result.kind = "ErrMaximumRetriesReached"
    /\ Len(stack["g1"]) = 1
    /\ stack["g1"][1].sess = last["g1"].sess
    /\ sessions[last["g1"].sess].closeCount = 0

(***************************************************************************)
(* C12: WithNewDbSession never reuses the Session of its context.  On      *)
(* entry it constructs a Session no one holds yet, with transactionOpen =  *)
(* false and no pending events, and changes nothing else; that Session is  *)
(* the one handed to every attempt and differs from the Session the        *)
(* context carries; when WithNewDbSession returns, on every path, it       *)
(* closes that Session and leaves every other Session as it was.           *)
(***************************************************************************)
C12_NewSessionNeverReuses ==
    [][\A p \in Procs :
          /\ \A f \in Frames(p) :
                 f.fn = "WithNewDbSession"
                 => /\ f.isNew
                    /\ f.sess # f.carried
                    /\ sessions[f.sess].closeCount = 0
                    /\ \A k \in 1..Len(f.handed) : f.handed[k] = f.sess
          /\ (Pushed(p) /\ TopNext(p).fn = "WithNewDbSession")
                 => /\ TopNext(p).sess \in SessIds \ Allocated(sessions)
                    /\ sessions' = [sessions EXCEPT ![TopNext(p).sess] =
                           [alloc |-> TRUE, transactionOpen |-> FALSE,
                            txActive |-> FALSE, events |-> <<>>,
                            ctx |-> "none", closeCount |-> 0]]
          /\ (Popped(p) /\ Top(p).fn = "WithNewDbSession")
                 => /\ last'[p].fn = "WithNewDbSession"
                    /\ last'[p].sess = Top(p).sess
                    /\ sessions'[Top(p).sess].closeCount = 1
                    /\ \A s \in SessIds \ {Top(p).sess} :
                           sessions'[s] = sessions[s]]_vars

C12_Witness ==
    /\ last["g1"].fn = "WithNewDbSession"
    /\ last["g1"].carried # NoSess
    /\ last["g1"].handed = <<last["g1"].sess, last["g1"].sess>>
    /\ sessions[last["g1"].sess].closeCount = 1
    /\ sessions[last["g1"].carried].closeCount = 0
    /\ sessions[last["g1"].carried].transactionOpen
    /\ sessions[last["g1"].carried].events = <<1>>
    /\ sessions[last["g1"].carried].ctx = "root"

(***************************************************************************)
(* C13: registering an event only queues it.  Every step leaves the queue  *)
(* of every Session as it was, but a registration, which appends the       *)
(* registered value at the end of the queue of the Session it is called on *)
(* and changes nothing else; so a queue holds exactly the values           *)
(* registered on it, in registration order (the k-th value registered in   *)
(* the run is k), and no entry point publishes or removes one.             *)
(***************************************************************************)
C13_EventsOnlyQueued ==
    [][/\ \A s \in SessIds :
              \A i \in 1..(Len(sessions[s].events) - 1) :
                  sessions[s].events[i] < sessions[s].events[i + 1]
       /\ \/ \A s \in SessIds : sessions'[s].events = sessions[s].events
          \/ \E p \in Procs :
                 /\ stack[p] # <<>>
                 /\ Top(p).pc = "callback"
                 /\ stack' = stack
                 /\ sessions' = [sessions EXCEPT ![Top(p).sess].events =
                        Append(@, SumEvents(sessions, SessIds) + 1)]]_vars

\* two events registered, one in each of two attempts
C13_Witness ==
    /\ Finished("g1")
    /\ last["g1"].fn = "WithDbSession"
    /\ last["g1"].outcomes = <<"contention", "nil">>
    /\ sessions[last["g1"].sess].events = <<1, 2>>
    /\ last["g1"].depth = 2

(***************************************************************************)
(* C14: every Session constructed is closed once the operation that        *)
(* constructed it has returned, on every exit path, the failed Begin of    *)
(* session acquisition included: a Session that no work execution in       *)
(* progress owns has been closed.                                          *)
(***************************************************************************)
Owned == {f.sess : f \in {g \in UNION {Frames(p) : p \in Procs} : g.isNew}}

C14_EveryConstructedSessionClosed ==
    \A s \in Allocated(sessions) \ Owned : sessions[s].closeCount >= 1

(***************************************************************************)
(* C15: InsertId issues, on the table of the bean's struct type, the       *)
(* pre-insert hook, then the single-row insert, then the post-insert hook. *)
(* If the pre-insert hook fails the insert is not issued and no row is     *)
(* persisted; if the insert fails the post-insert hook is not run and no   *)
(* row is persisted; if the post-insert hook fails after the insert, the   *)
(* row stays persisted and InsertId returns id 0 and the hook's error;     *)
(* if no step fails it returns the generated id and nil.                   *)
(***************************************************************************)
Op(name) == [op |-> name, table |-> Obj2Table(db'.bean.name)]

C15_InsertIdStepOrder ==
    [][db'.n # db.n =>
          LET table == Obj2Table(db'.bean.name)
              added == [db.rows EXCEPT ![table] = @ + 1]
          IN  /\ db'.n = db.n + 1
              /\ db'.fails[1] =>
                     /\ db'.trace = <<Op("PreInsertId")>>
                     /\ db'.rows = db.rows
                     /\ db'.ret = [id |-> 0, err |-> ErrPreInsertId]
              /\ (~db'.fails[1] /\ db'.fails[2]) =>
                     /\ db'.trace = <<Op("PreInsertId"), Op("InsertOne")>>
                     /\ db'.rows = db.rows
                     /\ db'.ret = [id |-> 0, err |-> ErrInsertOne]
              /\ (~db'.fails[1] /\ ~db'.fails[2]) =>
                     /\ db'.trace = <<Op("PreInsertId"), Op("InsertOne"),
                                      Op("PostInsertId")>>
                     /\ db'.rows = added
                     /\ db'.ret = IF db'.fails[3]
                                  THEN [id |-> 0, err |-> ErrPostInsertId]
                                  ELSE [id |-> added[table], err |-> NoErr]]_vars

\* the second insert into table user, through a pointer to a pointer, whose
\* post-insert hook fails
C15_Witness ==
    /\ db.n = 2
    /\ db.bean = [name |-> "User", ptrs |-> 2]
    /\ db.fails = <<FALSE, FALSE, TRUE>>
    /\ db.rows["user"] = 2
    /\ db.ret = [id |-> 0, err |-> ErrPostInsertId]
    /\ Len(db.trace) = 3

(***************************************************************************)
(* The three results of the retry executor: nil after an attempt that      *)
(* returned nil; the callback's error, as it is, when it is no lock/busy   *)
(* contention; the maximum-retries-reached error, wrapping a contention    *)
(* error of the attempt whose number is QueryRetries.                      *)
(***************************************************************************)
OneOfThree(r) ==
    \/ /\ r.result = NoErr
       /\ r.outcomes # <<>>
       /\ r.outcomes[Len(r.outcomes)] = "nil"
    \/ /\ r.result = r.err
       /\ Outcome(r.err) = "error"
    \/ /\ r.result = Err("ErrMaximumRetriesReached", r.err.code, QueryRetries)
       /\ Outcome(r.err) = "contention"
       /\ Len(r.outcomes) = QueryRetries

C17_TransactionOpenIffActive ==
    \A s \in Allocated(sessions) :
        sessions[s].transactionOpen = sessions[s].txActive

(***************************************************************************)
(* C18: the retry loop hands the same Session to every attempt and never   *)
(* clears its queue between attempts.  With a callback that registers one  *)
(* event per invocation, the Session holds one event per invocation made   *)
(* so far, in attempt order (the event of attempt i is the value i), while *)
(* the loop runs, while it waits, and when it has returned: a success on   *)
(* attempt k leaves the k events <<1, ..., k>>.                            *)
(***************************************************************************)
OnePerAttempt(f) ==
    /\ \A i \in 1..Len(f.handed) : f.handed[i] = f.sess
    /\ sessions[f.sess].events = [i \in 1..Len(f.handed) |-> i]

C18_EventsSurviveRetries ==
    \A p \in Procs :
        /\ \A f \in Frames(p) : OnePerAttempt(f)
        /\ Finished(p) => OnePerAttempt(last[p])

\* contention on attempts 1 and 2, success on attempt 3
C18_Witness ==
    /\ Finished("g1")
    /\ last["g1"].outcomes = <<"contention", "contention", "nil">>
    /\ last["g1"].result = NoErr
    /\ sessions[last["g1"].sess].events = <<1, 2, 3>>
    /\ sessions[last["g1"].sess].closeCount = 1

(***************************************************************************)
(* C19: a nested WithDbSession that reused the Session binds its handle to *)
(* the context of the nested call, and the binding is not restored when    *)
(* the nested call returns: right after the return (the nested call having *)
(* made no call of its own that is over), the handle is bound to the       *)
(* nested call's context, whatever the context of the work execution that  *)
(* goes on.                                                                *)
(***************************************************************************)
C19_BindingStaysNested ==
    \A p \in Procs :
        (/\ last[p].fn = "WithDbSession"
         /\ ~last[p].isNew
         /\ calls[p] = last[p].depth)
        => /\ \E f \in Frames(p) : f.isNew /\ f.sess = last[p].sess
           /\ sessions[last[p].sess].ctx = last[p].ctx

\* the transaction runs on root, the nested call that returned on derived
C19_Witness ==
    /\ Len(stack["g1"]) = 1
    /\ stack["g1"][1].fn = "InTransaction"
    /\ stack["g1"][1].ctx = "root"
    /\ stack["g1"][1].pc = "callback"
    /\ last["g1"].fn = "WithDbSession"
    /\ ~last["g1"].isNew
    /\ last["g1"].ctx = "derived"
    /\ last["g1"].result = NoErr
    /\ sessions[stack["g1"][1].sess].ctx = "derived"

(***************************************************************************)
(* What a work execution returns, told from its own attempts alone.        *)
(***************************************************************************)
ExpectedResult(r) ==
    IF r.outcomes = <<>> THEN ErrRetryer
    ELSE IF r.outcomes[Len(r.outcomes)] = "nil" THEN NoErr
    ELSE IF r.outcomes[Len(r.outcomes)] = "error" THEN r.err
    ELSE ErrMaximumRetriesReached(QueryRetries, r.err)

\* the attempts of a work execution that has returned: it stopped at the
\* first attempt that did not fail with contention, or at attempt
\* QueryRetries
OwnAttempts(r) ==
    /\ Len(r.handed) = Len(r.outcomes)
    /\ Len(r.outcomes) <= QueryRetries
    /\ AllContention(SubSeq(r.outcomes, 1, Len(r.outcomes) - 1))
    /\ (r.outcomes = <<>> \/ r.outcomes[Len(r.outcomes)] = "contention")
           => Len(r.outcomes) = QueryRetries

(***************************************************************************)
(* C20: work executions running concurrently on contexts that carry no     *)
(* Session are isolated under every interleaving.  Each has a Session of   *)
(* its own, handed to all its attempts, and a counter of its own that      *)
(* counts its attempts from 0; the Session of an execution in progress is  *)
(* open whatever the other has done, and is closed once when its own       *)
(* execution returns; the number of attempts an execution makes and its    *)
(* result follow from the outcomes of its own attempts alone.              *)
(***************************************************************************)
C20_ConcurrentExecutionsIsolated ==
    \A p \in Procs :
        /\ \A f \in Frames(p) :
               /\ f.isNew
               /\ f.retry = Len(f.handed)
               /\ \A k \in 1..Len(f.handed) : f.handed[k] = f.sess
               /\ AllContention(f.outcomes)
               /\ Len(f.outcomes) < QueryRetries \/ QueryRetries = 0
               /\ sessions[f.sess].closeCount = 0
               /\ \A q \in Procs \ {p} :
                      /\ \A g \in Frames(q) : g.sess # f.sess
                      /\ last[q].sess # f.sess
        /\ Finished(p) =>
               /\ \A k \in 1..Len(last[p].handed) :
                      last[p].handed[k] = last[p].sess
               /\ sessions[last[p].sess].closeCount = 1
               /\ OwnAttempts(last[p])
               /\ last[p].result = ExpectedResult(last[p])
               /\ \A q \in Procs \ {p} : last[q].sess # last[p].sess

\* g2 has run out of retries; g1, started first, is in its second attempt
C20_Witness ==
    /\ QueryRetries = 3
    /\ Finished("g2")
    /\ last["g2"].result.kind = "ErrMaximumRetriesReached"
    /\ Len(last["g2"].handed) = 3
    /\ sessions[last["g2"].sess].closeCount = 1
    /\ Len(stack["g1"]) = 1
    /\ stack["g1"][1].sess = 1
    /\ stack["g1"][1].retry = 2
    /\ stack["g1"][1].pc = "callback"
    /\ sessions[1].closeCount = 0

====
